---- MODULE Spec2Model ----
(***************************************************************************)
(* The API-integration layer of the hospital front end: PatientApi         *)
(* (connectivity probe, retry with backoff, body-variant fallback,         *)
(* response normalisation), ConsultaApi and ExameApi (one fetch with a     *)
(* deadline), and ErrorHandler (classification of failures).               *)
(*                                                                         *)
(* One API operation runs at a time.  A state of the model is a point at   *)
(* which the operation is suspended on the event loop (a fetch in flight,  *)
(* a backoff timer armed) or has returned; every action is one event       *)
(* (settlement of a fetch, expiry of a timer, online/offline event)        *)
(* together with the whole synchronous continuation that it resumes.       *)
(***************************************************************************)
EXTENDS Integers, Sequences, FiniteSets, TLC

VARIABLES
    online,       \* navigator.onLine
    op,           \* the API operation in progress ("none" when idle)
    pc,           \* where the operation is suspended
    i,            \* createPatient/updatePatient: index into dataVariations
    attempt,      \* fetchWithRetry: loop variable `attempt`
    response,     \* createPatient/updatePatient: local `response`
    lastError,    \* fetchWithRetry: local `lastError`
    opLastError,  \* createPatient/updatePatient: local `lastError`
    result,       \* settlement of the promise returned to the caller
    classified,   \* history: UserFriendlyError of the last handleApiError call
    attempts,     \* history: main HTTP requests issued by this operation
    probes,       \* history: HEAD probes issued by this operation
    delays,       \* history: delays slept in the current fetchWithRetry call
    callOnline,   \* history: navigator.onLine when the operation was called
    corsAt,       \* history: value of `attempts` at the first CORS-classified failure (0: none)
    probeDown,    \* history: a HEAD probe was answered >= 500 while online
    lastEvent,    \* history: the last event of the operation (call, settlement, timer)
    inFlight,     \* history: requests of this operation issued and not yet settled
    answered,     \* history: statuses of the answers to this operation's main requests
    accepted,     \* history: POSTs of this createPatient call that the server accepted
    fnIn,         \* the arguments of a function applied on its own
    fnOut,        \* its result, once computed
    mounted,      \* AdminPanel: the effect that loads the list has run
    patients,     \* AdminPanel state `patients`
    loading,      \* AdminPanel state `loading`
    listError,    \* AdminPanel state `error`
    formLoading,  \* AdminPanel state `formLoading`
    deleteConfirm,\* AdminPanel state `deleteConfirm`
    listCalls,    \* AdminPanel: the fetchPatients calls awaiting getAllPatients
    issued,       \* history: number of fetchPatients calls made
    deleteCall,   \* AdminPanel: confirmDeletePatient awaits deletePatient
    lastHandled,  \* history: the getAllPatients answer handled last
    overlapped,   \* history: a fetchPatients call was made while another was in flight
    modalMode,    \* AdminPanel state `modalMode` ("none" for null)
    submitCall,   \* AdminPanel: handlePatientSubmit awaits createPatient/updatePatient
    deleteArg,    \* history: the row whose delete button was clicked last, and the id passed to deletePatient
    shownMessage, \* AdminPanel state `message`: 0 for null, else the number of the showMessage call
    timers,       \* AdminPanel: the pending setTimeout callbacks of showMessage, oldest first
    cleared,      \* history: what set `message` to null last
    formData,     \* PatientForm state `formData`: per field "" (empty), "invalid" or "valid"
    formErrors,   \* PatientForm state `errors`: the fields with a client-side error
    live,         \* PatientForm: the fields with touched[name] || realTimeValidation[name]
    serverErrors, \* PatientForm state `serverErrors`: the keys with a server error
    formProps,    \* PatientForm props `loading` and `serverValidationErrors` (AdminPanel state)
    editedSince,  \* history: the fields changed to a valid value since the server errors arrived
    authState,    \* AuthProvider: the reducer state
    pending,      \* AuthProvider: the login calls awaiting validateCredentials, oldest first
    location,     \* the route shown
    sinceLogout   \* history: logout was called and no login started after it has succeeded

apiVars == <<online, op, pc, i, attempt, response, lastError, opLastError, result,
             classified, attempts, probes, delays, callOnline, corsAt, probeDown,
             lastEvent, inFlight, answered, accepted>>
fnVars == <<fnIn, fnOut>>
uiVars == <<modalMode, submitCall, deleteArg, shownMessage, timers, cleared>>
formVars == <<formData, formErrors, live, serverErrors, formProps, editedSince>>
authVars == <<authState, pending, location, sinceLogout>>
otherVars == <<formVars, authVars>>
listVars == <<mounted, patients, loading, listError, formLoading, deleteConfirm,
              listCalls, issued, deleteCall, lastHandled, overlapped>>
panelVars == <<listVars, uiVars, otherVars>>
vars == <<apiVars, fnVars, panelVars>>

-----------------------------------------------------------------------------
(* RETRY_CONFIG *)

maxAttemptsRaised == 3 + 1
maxAttempts == 3
baseDelay == 1000
maxDelay == 10000
backoffMultiplier == 2

Min(a, b) == IF a <= b THEN a ELSE b

RECURSIVE Pow(_, _)
Pow(b, e) == IF e <= 0 THEN 1 ELSE b * Pow(b, e - 1)

-----------------------------------------------------------------------------
(* Operations *)

RetryOps == {"getAllPatients", "deletePatient"}
VariantOps == {"createPatient", "updatePatient"}
PatientOps == RetryOps \cup VariantOps
ConsultaOps == {"getAllConsultas", "createConsulta", "deleteConsulta"}
ExameOps == {"getAllExames", "createExame", "deleteExame"}
Ops == PatientOps \cup ConsultaOps \cup ExameOps

\* dataVariations.length
NumVariations(o) == IF o = "createPatient" THEN 4 ELSE 3

-----------------------------------------------------------------------------
(* Values thrown.  `message` stands for the text; the substring tests the  *)
(* code makes on it are the Includes* operators below.  status = 0 stands  *)
(* for an absent `status` property.                                        *)

NoError == [name |-> "none", isTypeError |-> FALSE, message |-> "", status |-> 0]

\* what fetch rejects with
ErrFailedToFetch == [name |-> "TypeError", isTypeError |-> TRUE,
                     message |-> "Failed to fetch", status |-> 0]
ErrNetworkError == [name |-> "TypeError", isTypeError |-> TRUE,
                    message |-> "NetworkError when attempting to fetch resource.", status |-> 0]
ErrCorsBlocked == [name |-> "TypeError", isTypeError |-> TRUE,
                   message |-> "Cross origin request blocked by CORS policy", status |-> 0]
ErrAbort == [name |-> "AbortError", isTypeError |-> FALSE,
             message |-> "The user aborted a request.", status |-> 0]
FetchErrors == {ErrFailedToFetch, ErrNetworkError, ErrCorsBlocked, ErrAbort}

\* new Error('No network connectivity')
ErrNoConnectivity == [name |-> "Error", isTypeError |-> FALSE,
                      message |-> "No network connectivity", status |-> 0]
\* new Error('All data variations failed')
ErrAllVariationsFailed == [name |-> "Error", isTypeError |-> FALSE,
                           message |-> "All data variations failed", status |-> 0]

IncludesFailedToFetch(m) == m \in {"Failed to fetch"}
LowerIncludesCors(m) == m \in {"Cross origin request blocked by CORS policy"}
IncludesTimeout(m) == m \in {"Request timeout"}

-----------------------------------------------------------------------------
(* HTTP responses.  body:                                                  *)
(*   "json_msg"   JSON object with a `message` key, content-type JSON      *)
(*   "json_data"  JSON without any message key, content-type JSON          *)
(*   "text"       non-empty text that is not JSON, content-type text       *)
(*   "empty"      empty body, no content-type                              *)
(*   "broken"     content-type JSON, reading the body fails                *)

Statuses == {200, 201, 204, 304, 400, 404, 500}
Bodies == {"json_msg", "json_data", "text", "empty", "broken"}
Responses == [status : Statuses, body : Bodies]
NoResponse == [status |-> 0, body |-> "none"]

\* the HEAD probe is sent with mode 'no-cors': an opaque response has status 0
ProbeStatuses == {0, 200, 503}

HttpMsg(s) ==
    CASE s = 200 -> "HTTP 200" [] s = 201 -> "HTTP 201" [] s = 204 -> "HTTP 204"
      [] s = 304 -> "HTTP 304" [] s = 400 -> "HTTP 400" [] s = 404 -> "HTTP 404"
      [] s = 422 -> "HTTP 422" [] s = 429 -> "HTTP 429" [] s = 500 -> "HTTP 500"
      [] s = 503 -> "HTTP 503" [] OTHER -> "HTTP"

-----------------------------------------------------------------------------
(* NetworkUtils *)

isCorsError(error) ==
    IF error = NoError THEN FALSE
    ELSE IF error.isTypeError /\ error.message # "" /\ IncludesFailedToFetch(error.message) THEN TRUE
    ELSE IF error.name = "TypeError" /\ error.message # "" /\ LowerIncludesCors(error.message) THEN TRUE
    ELSE FALSE

isNetworkError(error, on) ==
    IF ~on THEN TRUE
    ELSE IF error = NoError THEN FALSE
    ELSE IF error.isTypeError /\ error.message # "" /\ IncludesFailedToFetch(error.message) THEN TRUE
    ELSE IF error.name = "AbortError" THEN TRUE
    ELSE FALSE

-----------------------------------------------------------------------------
(* ErrorHandler.  A UserFriendlyError is [type, message, technicalMessage, *)
(* retryable]; messages are named by their ERROR_MESSAGES key.             *)

UFE(t, m, tech, r) == [type |-> t, message |-> m, technicalMessage |-> tech, retryable |-> r]
NoUFE == UFE("none", "", "", FALSE)

\* handleHttpError whose default branch never marks the error retryable
handleHttpErrorDefaultNotRetryable(status, message, operation) ==
    CASE status = 400 ->
           UFE("VALIDATION",
               IF operation \in PatientOps THEN "API_COMPATIBILITY" ELSE "BAD_REQUEST",
               message, FALSE)
      [] status = 401 -> UFE("AUTHENTICATION", "UNAUTHORIZED", message, FALSE)
      [] status = 403 -> UFE("AUTHORIZATION", "FORBIDDEN", message, FALSE)
      [] status = 404 -> UFE("API", "NOT_FOUND", message, FALSE)
      [] status = 409 -> UFE("VALIDATION", "CONFLICT", message, FALSE)
      [] status = 422 -> UFE("VALIDATION", "UNPROCESSABLE_ENTITY", message, FALSE)
      [] status = 429 -> UFE("API", "TOO_MANY_REQUESTS", message, TRUE)
      [] status \in {500, 502, 503, 504} ->
           UFE("API", IF status = 503 THEN "SERVICE_UNAVAILABLE" ELSE "SERVER_ERROR",
               message, TRUE)
      [] OTHER ->
           UFE("API", "UNKNOWN_ERROR", IF message # "" THEN message ELSE HttpMsg(status),
               FALSE)

handleHttpError(status, message, operation) ==
    CASE status = 400 ->
           UFE("VALIDATION",
               IF operation \in PatientOps THEN "API_COMPATIBILITY" ELSE "BAD_REQUEST",
               message, FALSE)
      [] status = 401 -> UFE("AUTHENTICATION", "UNAUTHORIZED", message, FALSE)
      [] status = 403 -> UFE("AUTHORIZATION", "FORBIDDEN", message, FALSE)
      [] status = 404 -> UFE("API", "NOT_FOUND", message, FALSE)
      [] status = 409 -> UFE("VALIDATION", "CONFLICT", message, FALSE)
      [] status = 422 -> UFE("VALIDATION", "UNPROCESSABLE_ENTITY", message, FALSE)
      [] status = 429 -> UFE("API", "TOO_MANY_REQUESTS", message, TRUE)
      [] status \in {500, 502, 503, 504} ->
           UFE("API", IF status = 503 THEN "SERVICE_UNAVAILABLE" ELSE "SERVER_ERROR",
               message, TRUE)
      [] OTHER ->
           UFE("API", "UNKNOWN_ERROR", IF message # "" THEN message ELSE HttpMsg(status),
               status >= 500)

handleApiError(error, operation, on) ==
    IF ~on THEN UFE("NETWORK", "NETWORK_OFFLINE", "", TRUE)
    ELSE IF isCorsError(error) THEN UFE("CORS", "CORS_ERROR", error.message, FALSE)
    ELSE IF isNetworkError(error, on) THEN UFE("NETWORK", "NETWORK_ERROR", error.message, TRUE)
    ELSE IF error.name = "AbortError" \/ IncludesTimeout(error.message)
         THEN UFE("TIMEOUT", "NETWORK_TIMEOUT", "", TRUE)
    ELSE IF error.status # 0 THEN handleHttpError(error.status, error.message, operation)
    ELSE UFE("UNKNOWN", "UNKNOWN_ERROR", error.message, TRUE)

-----------------------------------------------------------------------------
(* Result Envelope (ApiResponse<T>).  "absent" stands for a property that  *)
(* the object literal does not set; requestId and timestamp are left out.  *)
(* data: "parsed" the parsed JSON after field remapping, "placeholder" the *)
(* synthesized patient, "message" the object {message: text}.              *)

Envelope(succ, d, e, st, det) ==
    [success |-> succ, data |-> d, error |-> e, status |-> st, details |-> det]
NoEnvelope == Envelope(FALSE, "absent", "absent", -1, "absent")

Resolved(env) == [kind |-> "resolved", env |-> env]
Rejected == [kind |-> "rejected", env |-> NoEnvelope]
NoResult == [kind |-> "none", env |-> NoEnvelope]

\* response.text() of a readable body parses as JSON
IsJson(body) == body \in {"json_msg", "json_data"}
\* content-type includes 'application/json'
JsonContentType(body) == body \in {"json_msg", "json_data", "broken"}
BodyReadError == "body stream error"

\* PatientApi.parseApiError: the `message` of its result
parseApiErrorMessage(resp) ==
    IF JsonContentType(resp.body)
    THEN IF resp.body = "broken" THEN HttpMsg(resp.status)
         ELSE IF resp.body = "json_msg" THEN "server message"
         ELSE HttpMsg(resp.status)
    ELSE IF resp.body = "text" THEN "text body"
    ELSE HttpMsg(resp.status)

\* handleResponse testing response.ok (any 2xx) in place of 200 / 201
handleResponseAny2xx(resp) ==
    IF resp.status >= 200 /\ resp.status < 300
    THEN IF resp.body = "broken"
         THEN Envelope(FALSE, "absent", BodyReadError, 0, "absent")
         ELSE LET data == IF IsJson(resp.body) THEN "parsed"
                          ELSE IF resp.status = 201 /\ resp.body # "empty" THEN "placeholder"
                          ELSE "message"
              IN Envelope(TRUE, data, "absent", resp.status, "absent")
    ELSE Envelope(FALSE, "absent", parseApiErrorMessage(resp), resp.status, "present")

\* handleResponse putting the parsed error body into `data` of a failure envelope
handleResponseErrorData(resp) ==
    IF resp.status = 200 \/ resp.status = 201
    THEN IF resp.body = "broken"
         THEN Envelope(FALSE, "absent", BodyReadError, 0, "absent")
         ELSE LET data == IF IsJson(resp.body) THEN "parsed"
                          ELSE IF resp.status = 201 /\ resp.body # "empty" THEN "placeholder"
                          ELSE "message"
              IN Envelope(TRUE, data, "absent", resp.status, "absent")
    ELSE Envelope(FALSE, "message", parseApiErrorMessage(resp), resp.status, "present")

\* handleResponse reporting `HTTP <status>` in place of the parsed error message
handleResponseStatusMessage(resp) ==
    IF resp.status = 200 \/ resp.status = 201
    THEN IF resp.body = "broken"
         THEN Envelope(FALSE, "absent", BodyReadError, 0, "absent")
         ELSE LET data == IF IsJson(resp.body) THEN "parsed"
                          ELSE IF resp.status = 201 /\ resp.body # "empty" THEN "placeholder"
                          ELSE "message"
              IN Envelope(TRUE, data, "absent", resp.status, "absent")
    ELSE Envelope(FALSE, "absent", HttpMsg(resp.status), resp.status, "present")

\* PatientApi.handleResponse
handleResponse(resp) ==
    IF resp.status = 200 \/ resp.status = 201
    THEN IF resp.body = "broken"
         THEN Envelope(FALSE, "absent", BodyReadError, 0, "absent")
         ELSE LET data == IF IsJson(resp.body) THEN "parsed"
                          ELSE IF resp.status = 201 /\ resp.body # "empty" THEN "placeholder"
                          ELSE "message"
              IN Envelope(TRUE, data, "absent", resp.status, "absent")
    ELSE Envelope(FALSE, "absent", parseApiErrorMessage(resp), resp.status, "present")

\* ConsultaApi.handleResponse
ConsultaHandleResponse(resp) ==
    IF resp.status = 200 \/ resp.status = 201
    THEN IF resp.body = "broken"
         THEN Envelope(FALSE, "absent", BodyReadError, 0, "absent")
         ELSE Envelope(TRUE, IF IsJson(resp.body) THEN "parsed" ELSE "message",
                       "absent", resp.status, "absent")
    ELSE IF resp.body = "broken"
         THEN Envelope(FALSE, "absent", BodyReadError, 0, "absent")
         ELSE Envelope(FALSE, "absent",
                       IF resp.body = "empty" THEN HttpMsg(resp.status) ELSE "text body",
                       resp.status, "absent")

\* ExameApi.handleResponse
ExameHandleResponse(resp) ==
    IF resp.status = 200 \/ resp.status = 201
    THEN IF resp.body = "broken"
         THEN Envelope(FALSE, "absent", BodyReadError, 0, "absent")
         ELSE Envelope(TRUE, IF IsJson(resp.body) THEN "parsed" ELSE "message",
                       "absent", resp.status, "absent")
    ELSE IF resp.body = "broken"
         THEN Envelope(FALSE, "absent", BodyReadError, 0, "absent")
         ELSE Envelope(FALSE, "absent",
                       IF resp.body = "empty" THEN HttpMsg(resp.status) ELSE "text body",
                       resp.status, "absent")

\* the catch block rethrowing an abort instead of converting it
PatientCatchRethrowsAbort(error, operation, on) ==
    IF error.name = "AbortError" THEN Rejected
    ELSE Resolved(Envelope(FALSE, "absent", handleApiError(error, operation, on).message,
                           IF error.status # 0 THEN error.status ELSE 0, "present"))

\* the catch block of getAllPatients, createPatient, updatePatient, deletePatient
PatientCatch(error, operation, on) ==
    Resolved(Envelope(FALSE, "absent", handleApiError(error, operation, on).message,
                      IF error.status # 0 THEN error.status ELSE 0, "present"))

\* the catch block of the ConsultaApi and ExameApi operations
SimpleCatch(error) ==
    Resolved(Envelope(FALSE, "absent", error.message, 0, "absent"))

-----------------------------------------------------------------------------
(* handleResponse in detail: the parsed body of a 200 / 201 answer.        *)
(* An object is a function from Keys to the value stored under the key;    *)
(* a truthy value is written as the name of the key it was stored under,   *)
(* so that the result shows which server key a canonical field came from.  *)

CanonicalKeys == {"id", "name", "cpf", "age", "gender", "plan"}
AlternateKeys == {"nomeCompleto", "nome", "cpfNumero", "idadePaciente", "idade",
                  "sexo", "genero", "planoSaude", "plano"}
\* a server key that is neither canonical nor alternate
ExtraKeys == {"createdAt"}
ServerKeys == CanonicalKeys \cup AlternateKeys \cup ExtraKeys
\* keys of the objects that handleResponse synthesizes
Keys == ServerKeys \cup {"success", "message"}

Undefined == "undefined"
EmptyString == "''"
Zero == "0"
NumberKeys == {"id", "age", "idadePaciente", "idade"}
FalsyOf(k) == IF k \in NumberKeys THEN Zero ELSE EmptyString
Truthy(v) == v \notin {Undefined, EmptyString, Zero}
\* JavaScript a || b
Or(a, b) == IF Truthy(a) THEN a ELSE b

EmptyObject == [k \in Keys |-> Undefined]

\* values: an object, an array of elements, null
JsObject(o) == [t |-> "object", o |-> o, a |-> <<>>]
JsArray(a) == [t |-> "array", o |-> EmptyObject, a |-> a]
JsNull == [t |-> "null", o |-> EmptyObject, a |-> <<>>]
\* array elements: an object or null
ElemObject(o) == [t |-> "object", o |-> o]
ElemNull == [t |-> "null", o |-> EmptyObject]

\* the object literal built for a patient (array element or single object)
normalizePatient(patient) ==
    [k \in Keys |->
        CASE k = "id" -> patient["id"]
          [] k = "name" -> Or(patient["nomeCompleto"], Or(patient["nome"],
                              Or(patient["name"], EmptyString)))
          [] k = "cpf" -> Or(patient["cpfNumero"], Or(patient["cpf"], EmptyString))
          [] k = "age" -> Or(patient["idadePaciente"], Or(patient["idade"],
                             Or(patient["age"], Zero)))
          [] k = "gender" -> Or(patient["sexo"], Or(patient["genero"],
                                Or(patient["gender"], EmptyString)))
          [] k = "plan" -> Or(patient["planoSaude"], Or(patient["plano"],
                              Or(patient["plan"], EmptyString)))
          [] OTHER -> Undefined]

\* the test that decides whether a single object is remapped
needsRemap(rawData) ==
    \/ Truthy(rawData["nome"]) \/ Truthy(rawData["idade"])
    \/ Truthy(rawData["genero"]) \/ Truthy(rawData["plano"])

\* the patient synthesized for a 201 answer whose body is not JSON
Placeholder ==
    [k \in Keys |->
        CASE k = "success" -> "true"
          [] k = "message" -> "responseText"
          [] k = "id" -> "Date.now()"
          [] k = "name" -> "Paciente criado com sucesso"
          [] k \in {"cpf", "gender", "plan"} -> EmptyString
          [] k = "age" -> Zero
          [] OTHER -> Undefined]

\* { message: responseText }
MessageObject(text) ==
    [EmptyObject EXCEPT !["message"] = IF text.empty THEN EmptyString ELSE "responseText"]

\* a body text: JSON with its parsed value, or text that JSON.parse rejects
JsonText(v) == [json |-> TRUE, empty |-> FALSE, value |-> v]
PlainText == [json |-> FALSE, empty |-> FALSE, value |-> JsNull]
EmptyText == [json |-> FALSE, empty |-> TRUE, value |-> JsNull]

SuccessData(succ, st, d) == [success |-> succ, status |-> st, data |-> d]

\* handleResponse synthesizing the patient for every 201 body that is not
\* JSON, the empty one included
handleResponseDataAnyText(status, text) ==
    LET rawData == IF text.json THEN text.value
                   ELSE IF status = 201 THEN JsObject(Placeholder)
                   ELSE JsObject(MessageObject(text))
        data == IF rawData.t = "array"
                THEN JsArray([n \in DOMAIN rawData.a |->
                                 IF rawData.a[n].t # "object" THEN rawData.a[n]
                                 ELSE ElemObject(normalizePatient(rawData.a[n].o))])
                ELSE IF rawData.t = "object" /\ needsRemap(rawData.o)
                THEN JsObject(normalizePatient(rawData.o))
                ELSE rawData
    IN SuccessData(TRUE, status, data)

\* handleResponse for status 200 / 201 with a readable body: the envelope's
\* success, status and data
handleResponseData(status, text) ==
    LET rawData == IF text.json THEN text.value
                   ELSE IF status = 201 /\ ~text.empty THEN JsObject(Placeholder)
                   ELSE JsObject(MessageObject(text))
        data == IF rawData.t = "array"
                THEN JsArray([n \in DOMAIN rawData.a |->
                                 IF rawData.a[n].t # "object" THEN rawData.a[n]
                                 ELSE ElemObject(normalizePatient(rawData.a[n].o))])
                ELSE IF rawData.t = "object" /\ needsRemap(rawData.o)
                THEN JsObject(normalizePatient(rawData.o))
                ELSE rawData
    IN SuccessData(TRUE, status, data)

-----------------------------------------------------------------------------
(* parseApiError in detail: the body {"errors": [{field, message}, ...]}   *)

\* property names that the object literal {} inherits from Object.prototype
InheritedKeys == {"constructor"}

NoMap == [f \in {} |-> <<>>]
Extend(map, f, v) == [x \in (DOMAIN map) \cup {f} |-> IF x = f THEN v ELSE map[x]]

RECURSIVE forEachError(_, _)
\* errorData.errors.forEach(...) from entry Head(errors) on; acc.map is
\* validationErrors so far, acc.threw says that push was called on a value
\* that is not an array
forEachError(errors, acc) ==
    IF errors = <<>> \/ acc.threw THEN acc
    ELSE LET err == Head(errors) IN
         IF err.field # "" /\ err.message # ""
         THEN IF err.field \in DOMAIN acc.map
              THEN forEachError(Tail(errors),
                       [acc EXCEPT !.map[err.field] = Append(@, err.message)])
              ELSE IF err.field \in InheritedKeys
              THEN [acc EXCEPT !.threw = TRUE]
              ELSE forEachError(Tail(errors),
                       [acc EXCEPT !.map = Extend(acc.map, err.field, <<err.message>>)])
         ELSE forEachError(Tail(errors), acc)

\* validationErrors of parseApiError for the body {"errors": errors}
\* (defined = FALSE: the property is undefined)
parseApiErrorValidation(contentTypeJson, errors) ==
    IF contentTypeJson
    THEN LET r == forEachError(errors, [threw |-> FALSE, map |-> NoMap])
         IN [threw |-> r.threw, defined |-> ~r.threw, map |-> IF r.threw THEN NoMap ELSE r.map]
    ELSE [threw |-> FALSE, defined |-> FALSE, map |-> NoMap]

ErrorDetails(succ, st, det, v) ==
    [success |-> succ, status |-> st, details |-> det, validationErrors |-> v]

\* handleResponse for a status other than 200 / 201 with the body
\* {"errors": errors}: the envelope's success, status and details
handleResponseErrors(status, contentTypeJson, errors) ==
    LET errorInfo == parseApiErrorValidation(contentTypeJson, errors) IN
    IF errorInfo.threw
    THEN ErrorDetails(FALSE, 0, "absent", [defined |-> FALSE, map |-> NoMap])
    ELSE ErrorDetails(FALSE, status, "present",
                      [defined |-> errorInfo.defined, map |-> errorInfo.map])

-----------------------------------------------------------------------------
(* PatientApi: retry policy *)

\* getRetryDelay with the exponent of ErrorHandler.getRetryDelay (attempt, not attempt - 1)
getRetryDelayFromTwo(n) ==
    Min(baseDelay * Pow(backoffMultiplier, n), maxDelay)

getRetryDelay(n) ==
    Min(baseDelay * Pow(backoffMultiplier, n - 1), maxDelay)

shouldRetryRequest(error, n, on) ==
    IF n >= maxAttempts THEN FALSE
    ELSE IF isNetworkError(error, on) THEN TRUE
    ELSE IF error.name = "AbortError" THEN TRUE
    ELSE IF error.status >= 500 THEN TRUE
    ELSE IF error.status = 429 THEN TRUE
    ELSE FALSE

\* detectCorsIssue(error), called without a response
detectCorsIssue(error) == error # NoError /\ isCorsError(error)

\* checkNetworkConnectivity once the HEAD probe has settled
\* (p.kind = "response" with p.status, or p.kind = "error")
probeConnected(p) == IF p.kind = "response" THEN p.status < 500 ELSE TRUE

-----------------------------------------------------------------------------
(* The locals of the operation in progress, as one record, and the         *)
(* synchronous continuations of the code as functions on it.  `on` is      *)
(* navigator.onLine, which does not change inside a continuation.          *)

locals ==
    [op |-> op, pc |-> pc, i |-> i, attempt |-> attempt, response |-> response,
     lastError |-> lastError, opLastError |-> opLastError, result |-> result,
     classified |-> classified, attempts |-> attempts, probes |-> probes,
     delays |-> delays, corsAt |-> corsAt, probeDown |-> probeDown,
     inFlight |-> inFlight, answered |-> answered, accepted |-> accepted]

Fresh(o) ==
    [op |-> o, pc |-> "idle", i |-> 0, attempt |-> 0, response |-> NoResponse,
     lastError |-> NoError, opLastError |-> NoError, result |-> NoResult,
     classified |-> NoUFE, attempts |-> 0, probes |-> 0, delays |-> <<>>,
     corsAt |-> 0, probeDown |-> FALSE, inFlight |-> 0, answered |-> {},
     accepted |-> 0]

\* a fetch promise rejecting at its deadline while the request itself goes on
\* (a deadline that is raced against the fetch and does not abort it)
RequestSettledUnlessAborted(s, error) ==
    IF error = ErrAbort THEN s ELSE [s EXCEPT !.inFlight = @ - 1]

\* the fetch promise of a request has settled: it resolved with a response
\* (error = NoError), the network failed, or controller.abort() cancelled it
RequestSettled(s, error) == [s EXCEPT !.inFlight = @ - 1]

\* a main request was answered with `resp`; the server has accepted a POST
\* of createPatient that it answers with a status < 400
Answered(s, resp) ==
    [s EXCEPT !.answered = @ \cup {resp.status},
              !.accepted = IF s.op = "createPatient" /\ resp.status < 400
                           THEN @ + 1 ELSE @]

\* the server accepted the POST, but the request was aborted at its
\* deadline before the answer arrived
AcceptedUnanswered(s) == [s EXCEPT !.accepted = @ + 1]

\* return of the operation with a value
Return(s, env) == [s EXCEPT !.pc = "done", !.result = Resolved(env)]

\* the outer catch block of a patient operation
OuterCatch(s, error, on) ==
    [s EXCEPT !.pc = "done",
              !.result = PatientCatch(error, s.op, on),
              !.classified = handleApiError(error, s.op, on)]

\* after the variant loop: `if (!response) throw ...; return handleResponse(response)`
AfterLoop(s, on) ==
    IF s.response = NoResponse
    THEN OuterCatch(s, IF s.opLastError # NoError THEN s.opLastError
                       ELSE ErrAllVariationsFailed, on)
    ELSE Return(s, handleResponse(s.response))

RECURSIVE EnterFetchWithRetry(_, _)
RECURSIVE FetchWithRetryThrows(_, _, _)

\* fetchWithRetry sending the HEAD probe without asking navigator.onLine first
EnterWithoutOnlineTest(s, on) ==
    [s EXCEPT !.pc = "probe", !.probes = @ + 1, !.attempt = 0,
              !.lastError = NoError, !.delays = <<>>, !.inFlight = @ + 1]

\* fetchWithRetry up to its first suspension: checkNetworkConnectivity
\* answers false at once when offline, and otherwise sends the HEAD probe
EnterFetchWithRetry(s, on) ==
    IF ~on
    THEN FetchWithRetryThrows(s, ErrNoConnectivity, on)
    ELSE [s EXCEPT !.pc = "probe", !.probes = @ + 1, !.attempt = 0,
                   !.lastError = NoError, !.delays = <<>>, !.inFlight = @ + 1]

\* fetchWithRetry throws `error` into the operation that called it
FetchWithRetryThrows(s, error, on) ==
    IF s.op \in VariantOps
    THEN LET s1 == [s EXCEPT !.opLastError = error]
         IN IF s.i = NumVariations(s.op) - 1
            THEN OuterCatch(s1, error, on)
            ELSE EnterFetchWithRetry([s1 EXCEPT !.i = @ + 1], on)
    ELSE OuterCatch(s, error, on)

\* the first main attempt of fetchWithRetry, after a successful probe
FirstAttempt(s) ==
    [s EXCEPT !.pc = "fetch", !.attempt = 1, !.attempts = @ + 1, !.inFlight = @ + 1]

\* the end of one iteration of the retry loop: attempt++, test, next fetch
NextAttempt(s, on) ==
    IF s.attempt + 1 <= maxAttempts
    THEN [s EXCEPT !.pc = "fetch", !.attempt = @ + 1, !.attempts = @ + 1,
                   !.inFlight = @ + 1]
    ELSE FetchWithRetryThrows([s EXCEPT !.attempt = @ + 1], s.lastError, on)

\* the catch block of the retry loop
RetryCatch(s, error, on) ==
    LET s1 == [s EXCEPT !.lastError = error] IN
    IF detectCorsIssue(error)
    THEN FetchWithRetryThrows(
             [s1 EXCEPT !.corsAt = IF @ = 0 THEN s.attempts ELSE @], error, on)
    ELSE IF ~shouldRetryRequest(error, s.attempt, on)
    THEN FetchWithRetryThrows(s1, error, on)
    ELSE IF s.attempt < maxAttempts
    THEN [s1 EXCEPT !.pc = "sleep", !.delays = Append(@, getRetryDelay(s.attempt))]
    ELSE NextAttempt(s1, on)

\* the variant loop breaking on success only (a 5xx answer tries the next variant)
VariantChecksBreakOnSuccessOnly(s, on) ==
    LET last == NumVariations(s.op) - 1 IN
    IF s.response.status < 400
    THEN AfterLoop(s, on)
    ELSE IF s.response.status = 400 /\ s.i < last
    THEN EnterFetchWithRetry([s EXCEPT !.i = @ + 1], on)
    ELSE IF s.i < last
    THEN EnterFetchWithRetry([s EXCEPT !.i = @ + 1], on)
    ELSE AfterLoop([s EXCEPT !.i = @ + 1], on)

\* the tests that follow a response in the variant loop
VariantChecks(s, on) ==
    LET last == NumVariations(s.op) - 1 IN
    IF s.response.status < 400 \/ s.response.status >= 500
    THEN AfterLoop(s, on)
    ELSE IF s.response.status = 400 /\ s.i < last
    THEN EnterFetchWithRetry([s EXCEPT !.i = @ + 1], on)
    ELSE IF s.i < last
    THEN EnterFetchWithRetry([s EXCEPT !.i = @ + 1], on)
    ELSE AfterLoop([s EXCEPT !.i = @ + 1], on)

\* fetchWithRetry returns `resp` to the operation that called it
FetchWithRetryReturns(s, resp, on) ==
    IF s.op \in RetryOps
    THEN Return(s, handleResponse(resp))
    ELSE LET s1 == [s EXCEPT !.response = resp] IN
         IF s.op = "createPatient" /\ resp.status = 400 /\ s.i = NumVariations(s.op) - 1
         THEN [s1 EXCEPT !.pc = "resend", !.attempts = @ + 1, !.inFlight = @ + 1]
         ELSE VariantChecks(s1, on)

-----------------------------------------------------------------------------
(* The state machine *)


\* AdminPanel as useState initializes it, before its effects run
NoListError == "undefined"
NoPatient == "none"
NotHandled == [kind |-> "none", list |-> <<>>]
\* PatientForm as constructed in create mode
FormFields == {"name", "cpf", "age", "gender", "plan"}
NoValidationErrors == {"undefined"}
FormStart ==
    /\ formData = [f \in FormFields |-> ""]
    /\ formErrors = {}
    /\ live = {}
    /\ serverErrors = {}
    /\ formProps = [loading |-> FALSE, serverValidationErrors |-> NoValidationErrors]
    /\ editedSince = {}

\* a user that is null or undefined
NoUser == [username |-> "", role |-> "none"]
initialAuthState == [isAuthenticated |-> FALSE, isAdmin |-> FALSE, user |-> NoUser]
AuthStart ==
    /\ authState = initialAuthState
    /\ pending = <<>>
    /\ location = "/"
    /\ sinceLogout = FALSE

NoDelete == [clicked |-> "none", called |-> FALSE, id |-> "none"]
NotCleared == [by |-> "none", timer |-> 0, was |-> 0]
PanelStart ==
    /\ mounted = FALSE
    /\ patients = <<>>
    /\ loading = TRUE
    /\ listError = NoListError
    /\ formLoading = FALSE
    /\ deleteConfirm = [show |-> FALSE, patient |-> NoPatient]
    /\ listCalls = {}
    /\ issued = 0
    /\ deleteCall = FALSE
    /\ lastHandled = NotHandled
    /\ overlapped = FALSE
    /\ modalMode = "none"
    /\ submitCall = FALSE
    /\ deleteArg = NoDelete
    /\ shownMessage = 0
    /\ timers = <<>>
    /\ cleared = NotCleared
    /\ FormStart
    /\ AuthStart

\* no function is applied on its own while the API operations run
NoInput == [fn |-> "none"]
NoOutput == [done |-> FALSE, value |-> "none"]

\* the number of accepted POSTs of one createPatient call that is followed
MaxAccepted == 2

\* what the HEAD probe rejects with: the abort at its 5 s deadline, a network failure
ProbeErrors == {ErrAbort, ErrFailedToFetch}

Apply(n) ==
    /\ op' = n.op
    /\ pc' = n.pc
    /\ i' = n.i
    /\ attempt' = n.attempt
    /\ response' = n.response
    /\ lastError' = n.lastError
    /\ opLastError' = n.opLastError
    /\ result' = n.result
    /\ classified' = n.classified
    /\ attempts' = n.attempts
    /\ probes' = n.probes
    /\ delays' = n.delays
    /\ corsAt' = n.corsAt
    /\ probeDown' = n.probeDown
    /\ inFlight' = n.inFlight
    /\ answered' = n.answered
    /\ accepted' = n.accepted
    /\ UNCHANGED <<fnVars, panelVars>>

Init ==
    /\ online \in BOOLEAN
    /\ op = "none"
    /\ pc = "idle"
    /\ i = 0
    /\ attempt = 0
    /\ response = NoResponse
    /\ lastError = NoError
    /\ opLastError = NoError
    /\ result = NoResult
    /\ classified = NoUFE
    /\ attempts = 0
    /\ probes = 0
    /\ delays = <<>>
    /\ callOnline = TRUE
    /\ corsAt = 0
    /\ probeDown = FALSE
    /\ lastEvent = "init"
    /\ inFlight = 0
    /\ answered = {}
    /\ accepted = 0
    /\ fnIn = NoInput
    /\ fnOut = NoOutput
    /\ PanelStart

\* the UI calls an API operation
Call(o) ==
    /\ pc = "idle"
    /\ Apply(IF o \in PatientOps
             THEN EnterFetchWithRetry(Fresh(o), online)
             ELSE [Fresh(o) EXCEPT !.pc = "fetch", !.attempts = 1, !.inFlight = 1])
    /\ callOnline' = online
    /\ lastEvent' = "call"
    /\ UNCHANGED online

\* the HEAD probe of checkNetworkConnectivity is answered
ProbeResponds(st) ==
    /\ pc = "probe"
    /\ Apply(IF probeConnected([kind |-> "response", status |-> st])
             THEN FirstAttempt(RequestSettled(locals, NoError))
             ELSE FetchWithRetryThrows(
                      [RequestSettled(locals, NoError) EXCEPT !.probeDown = online],
                      ErrNoConnectivity, online))
    /\ lastEvent' = "probe_response"
    /\ UNCHANGED <<online, callOnline>>

\* the HEAD probe rejects (network failure, or abort at its deadline)
ProbeRejects(error) ==
    /\ pc = "probe"
    /\ Apply(IF probeConnected([kind |-> "error", status |-> 0])
             THEN FirstAttempt(RequestSettled(locals, error))
             ELSE FetchWithRetryThrows(RequestSettled(locals, error),
                                       ErrNoConnectivity, online))
    /\ lastEvent' = "probe_error"
    /\ UNCHANGED <<online, callOnline>>

\* the fetch of fetchWithTimeout resolves with a response
FetchResponds(resp) ==
    /\ pc = "fetch"
    /\ LET s == Answered(RequestSettled(locals, NoError), resp) IN
       Apply(IF op \in PatientOps THEN FetchWithRetryReturns(s, resp, online)
             ELSE IF op \in ConsultaOps THEN Return(s, ConsultaHandleResponse(resp))
             ELSE Return(s, ExameHandleResponse(resp)))
    /\ lastEvent' = "response"
    /\ UNCHANGED <<online, callOnline>>

\* the fetch of fetchWithTimeout rejects (the 30 s deadline aborts it with
\* ErrAbort); `processed`: the server had accepted the POST of createPatient
\* when the deadline aborted it
FetchRejects(error, processed) ==
    /\ pc = "fetch"
    /\ processed => (op = "createPatient" /\ error = ErrAbort
                     /\ accepted + 1 < MaxAccepted)
    /\ LET s0 == RequestSettled(locals, error)
           s == IF processed THEN AcceptedUnanswered(s0) ELSE s0 IN
       Apply(IF op \in PatientOps THEN RetryCatch(s, error, online)
             ELSE [s EXCEPT !.pc = "done", !.result = SimpleCatch(error)])
    /\ lastEvent' = "error"
    /\ UNCHANGED <<online, callOnline>>

\* the backoff timer of sleep(delay) fires
SleepEnds ==
    /\ pc = "sleep"
    /\ Apply(NextAttempt(locals, online))
    /\ lastEvent' = "timer"
    /\ UNCHANGED <<online, callOnline>>

\* createPatient: the direct re-send of the last variant is answered
ResendResponds(resp) ==
    /\ pc = "resend"
    /\ Apply(VariantChecks(
                 [Answered(RequestSettled(locals, NoError), resp) EXCEPT !.response = resp],
                 online))
    /\ lastEvent' = "resend_response"
    /\ UNCHANGED <<online, callOnline>>

\* createPatient: the direct re-send of the last variant rejects
ResendRejects(error) ==
    /\ pc = "resend"
    /\ Apply(FetchWithRetryThrows(RequestSettled(locals, error), error, online))
    /\ lastEvent' = "resend_error"
    /\ UNCHANGED <<online, callOnline>>

\* the browser's online / offline event
ConnectionChanges ==
    /\ online' = ~online
    /\ UNCHANGED <<op, pc, i, attempt, response, lastError, opLastError, result,
                   classified, attempts, probes, delays, callOnline, corsAt, probeDown,
                   lastEvent, inFlight, answered, accepted, fnVars, panelVars>>

\* the caller has its envelope; the next operation may be called
Settle ==
    /\ pc = "done"
    /\ Apply(Fresh("none"))
    /\ callOnline' = TRUE
    /\ lastEvent' = "settled"
    /\ UNCHANGED online

Next ==
    \/ \E o \in Ops : Call(o)
    \/ \E st \in ProbeStatuses : ProbeResponds(st)
    \/ \E e \in ProbeErrors : ProbeRejects(e)
    \/ \E r \in Responses : FetchResponds(r)
    \/ \E e \in FetchErrors : FetchRejects(e, FALSE)
    \/ SleepEnds
    \/ \E r \in Responses : ResendResponds(r)
    \/ \E e \in FetchErrors : ResendRejects(e)
    \/ ConnectionChanges
    \/ Settle

Spec == Init /\ [][Next]_vars

\* The patient operations alone, under the assumption that every request in
\* flight settles (answer, network failure, or abort at its deadline) and
\* that every backoff timer fires.  The body of an answer does not enter the
\* control flow of these operations, and a status enters it only as < 400,
\* 400, another 4xx, or >= 500; a rejection enters it as retried (abort) or
\* not retried (TypeError 'Failed to fetch').
PatientResponses == {r \in Responses : r.body = "json_msg" /\ r.status \in {201, 400, 404, 500}}
PatientErrors == {ErrAbort, ErrFailedToFetch}

\* the request in flight settles
RequestSettles(processedValues) ==
    \/ \E st \in ProbeStatuses : ProbeResponds(st)
    \/ \E e \in ProbeErrors : ProbeRejects(e)
    \/ \E r \in PatientResponses : FetchResponds(r)
    \/ \E e \in PatientErrors, processed \in processedValues : FetchRejects(e, processed)
    \/ \E r \in PatientResponses : ResendResponds(r)
    \/ \E e \in PatientErrors : ResendRejects(e)

PatientNext ==
    \/ \E o \in PatientOps : Call(o)
    \/ RequestSettles({FALSE})
    \/ SleepEnds
    \/ ConnectionChanges
    \/ Settle

PatientSpec ==
    /\ Init /\ [][PatientNext]_vars
    /\ WF_vars(RequestSettles({FALSE})) /\ WF_vars(SleepEnds)

\* createPatient alone, with what the server did with a POST that was
\* aborted at its deadline
CreateNext ==
    \/ Call("createPatient")
    \/ RequestSettles(BOOLEAN)
    \/ SleepEnds
    \/ ConnectionChanges
    \/ Settle

CreateSpec == Init /\ [][CreateNext]_vars

TypeOK ==
    /\ online \in BOOLEAN
    /\ op \in Ops \cup {"none"}
    /\ pc \in {"idle", "probe", "fetch", "sleep", "resend", "done"}
    /\ i \in 0..4
    /\ attempt \in 0..(maxAttempts + 1)
    /\ result.kind \in {"none", "resolved", "rejected"}
    /\ inFlight \in 0..2
    /\ answered \subseteq Statuses
    /\ accepted \in 0..MaxAccepted

-----------------------------------------------------------------------------
(* handleResponse and handleApiError applied on their own: the arguments   *)
(* are drawn by the initial state, one action applies the function.        *)

MaxKeys == 2
MaxLen == 2
MaxErrs == 2

\* server objects with at most MaxKeys keys, each value truthy or falsy
RawObjects ==
    UNION {{[k \in Keys |-> IF k \in T THEN k
                            ELSE IF k \in S THEN FalsyOf(k) ELSE Undefined]
              : T \in SUBSET S}
           : S \in {S \in SUBSET ServerKeys : Cardinality(S) <= MaxKeys}}

\* the elements that follow the first one in an array body
CanonicalPatient ==
    [k \in Keys |-> IF k \in CanonicalKeys THEN k ELSE Undefined]
Companions == {ElemNull, ElemObject(CanonicalPatient)}

RECURSIVE SeqsUpTo(_, _)
SeqsUpTo(S, n) ==
    IF n = 0 THEN {<<>>}
    ELSE LET shorter == SeqsUpTo(S, n - 1)
         IN shorter \cup {Append(s, x) : s \in {q \in shorter : Len(q) = n - 1}, x \in S}

RawArrays ==
    {<<>>} \cup {<<ElemObject(o)>> \o rest :
                    o \in RawObjects, rest \in SeqsUpTo(Companions, MaxLen - 1)}

BodyTexts ==
    {JsonText(JsObject(o)) : o \in RawObjects}
    \cup {JsonText(JsArray(a)) : a \in RawArrays}
    \cup {JsonText(JsNull), PlainText, EmptyText}

ErrorStatuses == {400, 422, 500}
ErrorFields == {"cpf", "name", "", "constructor"}
ErrorMessages == {"invalid", "required", ""}
ErrorEntries == [field : ErrorFields, message : ErrorMessages]

\* the errors handed to handleApiError: what fetch rejects with, thrown
\* Error objects, and objects that carry an HTTP status
ClassifiedStatuses == {0, 302, 400, 401, 403, 404, 409, 418, 422, 429, 500, 501, 502,
                       503, 504, 599}
ClassifiedErrors ==
    [name : {"Error", "TypeError", "AbortError"}, isTypeError : {FALSE},
     message : {"", "Failed to fetch", "Cross origin request blocked by CORS policy",
                "Request timeout", "Not Found"},
     status : ClassifiedStatuses]
    \cup {ErrFailedToFetch, ErrNetworkError, ErrCorsBlocked}

\* validateCPF: a string is a sequence of characters
DigitChars == <<"0", "1", "2", "3", "4", "5", "6", "7", "8", "9">>
IsDigit(c) == \E k \in DOMAIN DigitChars : DigitChars[k] = c

\* cpf.replace(/\D/g, '')
StripNonDigits(str) == SelectSeq(str, IsDigit)

\* /^(\d)\1{10}$/.test(cleanCPF)
AllDigitsEqual(str) == Len(str) = 11 /\ \A k \in 1..11 : str[k] = str[1]

validateCPF(cpf) ==
    IF cpf = <<>>
    THEN [isValid |-> FALSE, error |-> "CPF é obrigatório"]
    ELSE LET cleanCPF == StripNonDigits(cpf) IN
         IF Len(cleanCPF) # 11
         THEN [isValid |-> FALSE, error |-> "CPF deve ter exatamente 11 dígitos"]
         ELSE IF AllDigitsEqual(cleanCPF)
         THEN [isValid |-> FALSE,
               error |-> "CPF inválido - todos os dígitos não podem ser iguais"]
         ELSE [isValid |-> TRUE, error |-> "undefined"]

\* the strings given to validateCPF: eleven digits that begin 12345678, plain
\* and as formatCPF writes them, eleven equal digits, and strings that are
\* empty, too short, too long or without a digit
CpfPrefix == <<"1", "2", "3", "4", "5", "6", "7", "8">>
Char(n) == DigitChars[n + 1]
CpfInputs ==
    {CpfPrefix \o <<Char(a), Char(b), Char(c)>> : a, b, c \in 0..9}
    \cup {<<"1", "2", "3", ".", "4", "5", "6", ".", "7", "8", Char(a), "-", Char(b), Char(c)>> :
            a, b, c \in 0..9}
    \cup {[k \in 1..11 |-> Char(a)] : a \in 0..9}
    \cup {<<>>, CpfPrefix, CpfPrefix \o <<"9", "0", "9", "0">>, <<".", "-">>}

\* ProtectedRoute: what it returns
Children == [render |-> "children", to |-> "none"]
Navigate(to) == [render |-> "Navigate", to |-> to]

ProtectedRouteAuthOnly(auth, requireAdmin) ==
    IF ~auth.isAuthenticated THEN Navigate("/login") ELSE Children

ProtectedRoute(auth, requireAdmin) ==
    IF ~auth.isAuthenticated THEN Navigate("/login")
    ELSE IF requireAdmin /\ ~auth.isAdmin THEN Navigate("/")
    ELSE Children

\* the element of the route /admin: <ProtectedRoute requireAdmin={true}>
AdminRoute(auth) == ProtectedRoute(auth, TRUE)

AuthStates == [isAuthenticated : BOOLEAN, isAdmin : BOOLEAN]

FnInputs ==
    {[fn |-> "handleResponse", status |-> st, text |-> x] :
        st \in {200, 201}, x \in BodyTexts}
    \cup {[fn |-> "handleResponseErrors", status |-> st, contentTypeJson |-> ct,
           errors |-> es] :
        st \in ErrorStatuses, ct \in BOOLEAN, es \in SeqsUpTo(ErrorEntries, MaxErrs)}
    \cup {[fn |-> "handleApiError", error |-> e, online |-> on, operation |-> o] :
        e \in ClassifiedErrors, on \in BOOLEAN, o \in {"getAllPatients", "getAllConsultas"}}
    \cup {[fn |-> "validateCPF", cpf |-> s] : s \in CpfInputs}
    \cup {[fn |-> "AdminRoute", auth |-> a] : a \in AuthStates}

FnInit ==
    /\ online = TRUE
    /\ op = "none"
    /\ pc = "idle"
    /\ i = 0
    /\ attempt = 0
    /\ response = NoResponse
    /\ lastError = NoError
    /\ opLastError = NoError
    /\ result = NoResult
    /\ classified = NoUFE
    /\ attempts = 0
    /\ probes = 0
    /\ delays = <<>>
    /\ callOnline = TRUE
    /\ corsAt = 0
    /\ probeDown = FALSE
    /\ lastEvent = "init"
    /\ inFlight = 0
    /\ answered = {}
    /\ accepted = 0
    /\ fnIn \in FnInputs
    /\ fnOut = NoOutput
    /\ PanelStart

Computed(v) == [done |-> TRUE, value |-> v]

\* handleResponse is given a 200 / 201 answer
RunHandleResponse ==
    /\ fnIn.fn = "handleResponse" /\ ~fnOut.done
    /\ fnOut' = Computed(handleResponseData(fnIn.status, fnIn.text))
    /\ UNCHANGED <<apiVars, fnIn, panelVars>>

\* handleResponse is given an error answer with the body {"errors": [...]}
RunHandleResponseErrors ==
    /\ fnIn.fn = "handleResponseErrors" /\ ~fnOut.done
    /\ fnOut' = Computed(handleResponseErrors(fnIn.status, fnIn.contentTypeJson,
                                              fnIn.errors))
    /\ UNCHANGED <<apiVars, fnIn, panelVars>>

\* ErrorHandler.handleApiError is given an error
RunHandleApiError ==
    /\ fnIn.fn = "handleApiError" /\ ~fnOut.done
    /\ fnOut' = Computed(handleApiError(fnIn.error, fnIn.operation, fnIn.online))
    /\ UNCHANGED <<apiVars, fnIn, panelVars>>

\* validateCPF is given a string
RunValidateCPF ==
    /\ fnIn.fn = "validateCPF" /\ ~fnOut.done
    /\ fnOut' = Computed(validateCPF(fnIn.cpf))
    /\ UNCHANGED <<apiVars, fnIn, panelVars>>

\* the route /admin is rendered with an authState
RunAdminRoute ==
    /\ fnIn.fn = "AdminRoute" /\ ~fnOut.done
    /\ fnOut' = Computed(AdminRoute(fnIn.auth))
    /\ UNCHANGED <<apiVars, fnIn, panelVars>>

FnNext ==
    \/ RunHandleResponse
    \/ RunHandleResponseErrors
    \/ RunHandleApiError
    \/ RunValidateCPF
    \/ RunAdminRoute

FnSpec == FnInit /\ [][FnNext]_vars

-----------------------------------------------------------------------------
(* AdminPanel: the patient list, its refreshes and the delete dialog.      *)
(* A patient is written as its name ("" for an entry without a name); the  *)
(* name also stands for the id.  PatientApi is seen from outside: a call   *)
(* is in flight until its envelope is handled.                             *)

MaxCalls == 2

PatientNames == {"Ana", "Bia"}
\* the arrays that the server may answer
ServerLists == {<<>>, <<"Ana">>, <<"Ana", "Bia">>, <<"", "Bia">>}

\* the envelopes of getAllPatients: success with an array, with a non-array
\* object, with a falsy value (JSON null), or a failure
ListEnvelopes ==
    {[success |-> TRUE, data |-> "array", list |-> l] : l \in ServerLists}
    \cup {[success |-> TRUE, data |-> "object", list |-> <<>>],
          [success |-> TRUE, data |-> "null", list |-> <<>>],
          [success |-> FALSE, data |-> "absent", list |-> <<>>]}

\* response.success && response.data
HasData(env) == env.success /\ env.data \notin {"null", "absent"}

\* validPatients
ValidPatients(env) ==
    IF env.data = "array" THEN SelectSeq(env.list, LAMBDA x : x # "") ELSE <<>>

\* what PatientList renders
Shown ==
    IF loading THEN [kind |-> "loading", list |-> <<>>]
    ELSE IF listError # NoListError THEN [kind |-> "error", list |-> <<>>]
    ELSE [kind |-> "list", list |-> patients]

PanelInit ==
    /\ online = TRUE
    /\ op = "none"
    /\ pc = "idle"
    /\ i = 0
    /\ attempt = 0
    /\ response = NoResponse
    /\ lastError = NoError
    /\ opLastError = NoError
    /\ result = NoResult
    /\ classified = NoUFE
    /\ attempts = 0
    /\ probes = 0
    /\ delays = <<>>
    /\ callOnline = TRUE
    /\ corsAt = 0
    /\ probeDown = FALSE
    /\ lastEvent = "init"
    /\ inFlight = 0
    /\ answered = {}
    /\ accepted = 0
    /\ fnIn = NoInput
    /\ fnOut = NoOutput
    /\ PanelStart

MaxTimers == 2

\* hideDelay of showMessage
ErrorHideDelay == 10000
DefaultHideDelay == 6000

\* details?.suggestions || details?.technicalMessage: the suggestions handed
\* over by handleApiError and by handlePatientSubmit are arrays, truthy even
\* when empty
hideDelay(type, withDetails) ==
    IF type = "error" /\ withDetails THEN ErrorHideDelay ELSE DefaultHideDelay

FreeNumbers == {n \in 1..(MaxTimers + 1) :
                  n # shownMessage /\ \A k \in DOMAIN timers : timers[k].id # n}
NextMessage == CHOOSE n \in FreeNumbers : \A k \in FreeNumbers : n <= k

\* showMessage: setMessage(message); setTimeout(() => setMessage(null), hideDelay)
showMessage(type, withDetails) ==
    /\ Len(timers) < MaxTimers
    /\ shownMessage' = NextMessage
    /\ timers' = Append(timers, [id |-> NextMessage,
                                 delay |-> hideDelay(type, withDetails)])
    /\ UNCHANGED cleared

NoMessage == UNCHANGED <<shownMessage, timers, cleared>>

\* fetchPatients up to `await PatientApi.getAllPatients()`
fetchPatients(caller) ==
    /\ issued < MaxCalls
    /\ loading' = TRUE
    /\ listError' = NoListError
    /\ listCalls' = listCalls \cup {[id |-> issued + 1, caller |-> caller]}
    /\ issued' = issued + 1
    /\ overlapped' = (overlapped \/ listCalls # {})

\* the effect of the first render
Mount ==
    /\ ~mounted
    /\ mounted' = TRUE
    /\ fetchPatients("effect")
    /\ UNCHANGED <<patients, formLoading, deleteConfirm, deleteCall, lastHandled>>
    /\ UNCHANGED <<apiVars, fnVars, uiVars, otherVars>>

\* the refresh button, disabled while `loading`
handleRefresh ==
    /\ mounted /\ ~loading
    /\ fetchPatients("refresh")
    /\ UNCHANGED <<mounted, patients, formLoading, deleteConfirm, deleteCall, lastHandled>>
    /\ UNCHANGED <<apiVars, fnVars, uiVars, otherVars>>

findFirstRow(list, patientId) ==
    IF list # <<>> THEN list[1] ELSE NoPatient

\* patients.find(p => p.id === patientId)
find(list, patientId) ==
    IF \E n \in DOMAIN list : list[n] = patientId THEN patientId ELSE NoPatient

\* the delete button of a row of the list (rows are rendered when the list is,
\* and lie under the overlay of an open dialog or form)
handleDeletePatient(patientId) ==
    /\ mounted /\ Shown.kind = "list" /\ ~deleteConfirm.show /\ modalMode = "none"
    /\ \E n \in DOMAIN patients : patients[n] = patientId
    /\ IF find(patients, patientId) # NoPatient
       THEN deleteConfirm' = [show |-> TRUE, patient |-> find(patients, patientId)]
       ELSE UNCHANGED deleteConfirm
    /\ deleteArg' = [clicked |-> patientId, called |-> FALSE, id |-> "none"]
    /\ UNCHANGED <<mounted, patients, loading, listError, formLoading, listCalls,
                   issued, deleteCall, lastHandled, overlapped>>
    /\ UNCHANGED <<modalMode, submitCall, shownMessage, timers, cleared>>
    /\ UNCHANGED <<apiVars, fnVars, otherVars>>

\* the cancel button of the dialog, disabled while `formLoading`
cancelDeletePatient ==
    /\ deleteConfirm.show /\ ~formLoading
    /\ deleteConfirm' = [show |-> FALSE, patient |-> NoPatient]
    /\ UNCHANGED <<mounted, patients, loading, listError, formLoading, listCalls,
                   issued, deleteCall, lastHandled, overlapped>>
    /\ UNCHANGED <<apiVars, fnVars, uiVars, otherVars>>

\* the confirm button of the dialog, up to `await PatientApi.deletePatient(...)`
confirmDeletePatient ==
    /\ deleteConfirm.show /\ ~formLoading
    /\ deleteConfirm.patient # NoPatient
    /\ formLoading' = TRUE
    /\ deleteCall' = TRUE
    /\ deleteArg' = [deleteArg EXCEPT !.called = TRUE, !.id = deleteConfirm.patient]
    /\ UNCHANGED <<mounted, patients, loading, listError, deleteConfirm, listCalls,
                   issued, lastHandled, overlapped>>
    /\ UNCHANGED <<modalMode, submitCall, shownMessage, timers, cleared>>
    /\ UNCHANGED <<apiVars, fnVars, otherVars>>

\* confirmDeletePatient resumes with the envelope of deletePatient: on
\* success it shows a message, calls fetchPatients and awaits it, otherwise
\* it reports the error and runs `finally`
DeleteResponds(success) ==
    /\ deleteCall
    /\ deleteCall' = FALSE
    /\ IF success
       THEN /\ showMessage("success", FALSE)
            /\ fetchPatients("delete")
            /\ UNCHANGED <<formLoading, deleteConfirm>>
       ELSE /\ showMessage("error", TRUE)
            /\ formLoading' = FALSE
            /\ deleteConfirm' = [show |-> FALSE, patient |-> NoPatient]
            /\ UNCHANGED <<loading, listError, listCalls, issued, overlapped>>
    /\ UNCHANGED <<mounted, patients, lastHandled>>
    /\ UNCHANGED <<modalMode, submitCall, deleteArg>>
    /\ UNCHANGED <<apiVars, fnVars, otherVars>>

\* the "new patient" button and the edit button of a row
handleCreatePatient(mode) ==
    /\ mounted /\ modalMode = "none" /\ ~deleteConfirm.show
    /\ mode = "edit" => (Shown.kind = "list" /\ patients # <<>>)
    /\ modalMode' = mode
    /\ UNCHANGED <<mounted, patients, loading, listError, formLoading, deleteConfirm,
                   listCalls, issued, deleteCall, lastHandled, overlapped>>
    /\ UNCHANGED <<submitCall, deleteArg, shownMessage, timers, cleared>>
    /\ UNCHANGED <<apiVars, fnVars, otherVars>>

\* the cancel button of the form, disabled while `formLoading`
handlePatientCancel ==
    /\ modalMode # "none" /\ ~formLoading
    /\ modalMode' = "none"
    /\ UNCHANGED <<mounted, patients, loading, listError, formLoading, deleteConfirm,
                   listCalls, issued, deleteCall, lastHandled, overlapped>>
    /\ UNCHANGED <<submitCall, deleteArg, shownMessage, timers, cleared>>
    /\ UNCHANGED <<apiVars, fnVars, otherVars>>

\* the submit button of a valid form, disabled while `formLoading`, up to
\* `await PatientApi.createPatient(...)` or `await PatientApi.updatePatient(...)`
handlePatientSubmit ==
    /\ modalMode # "none" /\ ~formLoading
    /\ formLoading' = TRUE
    /\ submitCall' = TRUE
    /\ UNCHANGED <<mounted, patients, loading, listError, deleteConfirm,
                   listCalls, issued, deleteCall, lastHandled, overlapped>>
    /\ UNCHANGED <<modalMode, deleteArg, shownMessage, timers, cleared>>
    /\ UNCHANGED <<apiVars, fnVars, otherVars>>

SubmitOutcomes == {"success", "validation", "failure"}

\* handlePatientSubmit resumes with the envelope: on success it shows a
\* message, closes the form, calls fetchPatients and awaits it; otherwise it
\* reports the validation errors or the failure and runs `finally`
SubmitResponds(outcome) ==
    /\ submitCall
    /\ submitCall' = FALSE
    /\ IF outcome = "success"
       THEN /\ showMessage("success", FALSE)
            /\ modalMode' = "none"
            /\ fetchPatients("submit")
            /\ UNCHANGED formLoading
       ELSE /\ showMessage("error", TRUE)
            /\ formLoading' = FALSE
            /\ UNCHANGED <<modalMode, loading, listError, listCalls, issued, overlapped>>
    /\ UNCHANGED <<mounted, patients, deleteConfirm, deleteCall, lastHandled, deleteArg>>
    /\ UNCHANGED <<apiVars, fnVars, otherVars>>

\* a fetchPatients call resumes with the envelope of getAllPatients; the
\* call made by confirmDeletePatient or by handlePatientSubmit then runs
\* that function's `finally`
ListResponds(call, env) ==
    /\ call \in listCalls
    /\ listCalls' = listCalls \ {call}
    /\ IF HasData(env)
       THEN /\ patients' = ValidPatients(env)
            /\ NoMessage
            /\ UNCHANGED listError
       ELSE /\ listError' = "Failed to load patients"
            /\ showMessage("error", TRUE)
            /\ UNCHANGED patients
    /\ loading' = FALSE
    /\ lastHandled' = [kind |-> IF HasData(env) THEN "data"
                                ELSE IF env.success THEN "empty" ELSE "failure",
                       list |-> ValidPatients(env)]
    /\ IF call.caller = "delete"
       THEN /\ formLoading' = FALSE
            /\ deleteConfirm' = [show |-> FALSE, patient |-> NoPatient]
       ELSE IF call.caller = "submit"
       THEN /\ formLoading' = FALSE
            /\ UNCHANGED deleteConfirm
       ELSE UNCHANGED <<formLoading, deleteConfirm>>
    /\ UNCHANGED <<mounted, issued, deleteCall, overlapped>>
    /\ UNCHANGED <<modalMode, submitCall, deleteArg>>
    /\ UNCHANGED <<apiVars, fnVars, otherVars>>

\* a timer of showMessage expires: setMessage(null).  A timer armed earlier
\* with a delay that is not longer expires first.
TimerFires(n) ==
    /\ n \in DOMAIN timers
    /\ \A k \in 1..(n - 1) : timers[k].delay > timers[n].delay
    /\ shownMessage' = 0
    /\ timers' = SubSeq(timers, 1, n - 1) \o SubSeq(timers, n + 1, Len(timers))
    /\ cleared' = [by |-> "timer", timer |-> timers[n].id, was |-> shownMessage]
    /\ UNCHANGED <<mounted, patients, loading, listError, formLoading, deleteConfirm,
                   listCalls, issued, deleteCall, lastHandled, overlapped>>
    /\ UNCHANGED <<modalMode, submitCall, deleteArg>>
    /\ UNCHANGED <<apiVars, fnVars, otherVars>>

\* the close button of the message
DismissMessage ==
    /\ shownMessage # 0
    /\ shownMessage' = 0
    /\ cleared' = [by |-> "user", timer |-> 0, was |-> shownMessage]
    /\ UNCHANGED <<mounted, patients, loading, listError, formLoading, deleteConfirm,
                   listCalls, issued, deleteCall, lastHandled, overlapped>>
    /\ UNCHANGED <<modalMode, submitCall, deleteArg, timers>>
    /\ UNCHANGED <<apiVars, fnVars, otherVars>>

PanelNext ==
    \/ Mount
    \/ handleRefresh
    \/ \E p \in PatientNames : handleDeletePatient(p)
    \/ cancelDeletePatient
    \/ confirmDeletePatient
    \/ \E s \in BOOLEAN : DeleteResponds(s)
    \/ \E mode \in {"create", "edit"} : handleCreatePatient(mode)
    \/ handlePatientCancel
    \/ handlePatientSubmit
    \/ \E o \in SubmitOutcomes : SubmitResponds(o)
    \/ \E c \in listCalls, env \in ListEnvelopes : ListResponds(c, env)
    \/ \E n \in DOMAIN timers : TimerFires(n)
    \/ DismissMessage

PanelSpec == PanelInit /\ [][PanelNext]_vars

-----------------------------------------------------------------------------
(* AuthProvider, the route guard and the logout of AdminHeader.  The login  *)
(* page calls `login` of the context with the credentials typed.            *)

MaxLogins == 2

Usernames == {"admin", "maria"}
Passwords == {"admin", "1234"}
Credentials == [username : Usernames, password : Passwords]
ADMIN_CREDENTIALS == [username |-> "admin", password |-> "admin"]

\* what the timer of validateAdminCredentials resolves the promise with
validateAdminCredentials(credentials) ==
    IF /\ credentials.username = ADMIN_CREDENTIALS.username
       /\ credentials.password = ADMIN_CREDENTIALS.password
    THEN [username |-> credentials.username, role |-> "admin"]
    ELSE NoUser

authReducer(state, action) ==
    CASE action.type = "LOGIN_SUCCESS" ->
           [isAuthenticated |-> TRUE,
            isAdmin |-> (action.payload.role = "admin"),
            user |-> action.payload]
      [] action.type = "LOGIN_FAILURE" -> initialAuthState
      [] action.type = "LOGOUT" -> initialAuthState
      [] OTHER -> state

\* the route shown when `path` is navigated to
Shows(path, auth) ==
    IF path = "/admin"
    THEN LET element == AdminRoute(auth) IN
         IF element.render = "Navigate" THEN element.to ELSE path
    ELSE path

Paths == {"/", "/login", "/admin"}

\* a link is followed or a path is entered
NavigateTo(path) ==
    /\ path # location
    /\ location' = Shows(path, authState)
    /\ UNCHANGED <<authState, pending, sinceLogout>>
    /\ UNCHANGED <<apiVars, fnVars, listVars, uiVars, formVars>>

\* login up to `await validateCredentials(credentials)`
login(credentials) ==
    /\ location = "/login"
    /\ Len(pending) < MaxLogins
    /\ pending' = Append(pending, [credentials |-> credentials, afterLogout |-> TRUE])
    /\ UNCHANGED <<authState, location, sinceLogout>>
    /\ UNCHANGED <<apiVars, fnVars, listVars, uiVars, formVars>>

\* the 100 ms timer of the oldest pending validateAdminCredentials expires;
\* login resumes and dispatches
CredentialsChecked ==
    /\ pending # <<>>
    /\ LET user == validateAdminCredentials(Head(pending).credentials)
           action == IF user # NoUser
                     THEN [type |-> "LOGIN_SUCCESS", payload |-> user]
                     ELSE [type |-> "LOGIN_FAILURE"]
           next == authReducer(authState, action) IN
       /\ authState' = next
       /\ location' = Shows(location, next)
       /\ sinceLogout' = (sinceLogout /\ ~(user # NoUser /\ Head(pending).afterLogout))
    /\ pending' = Tail(pending)
    /\ UNCHANGED <<apiVars, fnVars, listVars, uiVars, formVars>>

\* the button of AdminHeader: logout(); navigate('/')
handleReturnToUser ==
    /\ location = "/admin"
    /\ authState' = authReducer(authState, [type |-> "LOGOUT"])
    /\ location' = "/"
    /\ sinceLogout' = TRUE
    /\ pending' = [k \in DOMAIN pending |-> [pending[k] EXCEPT !.afterLogout = FALSE]]
    /\ UNCHANGED <<apiVars, fnVars, listVars, uiVars, formVars>>

AuthNext ==
    \/ \E path \in Paths : NavigateTo(path)
    \/ \E c \in Credentials : login(c)
    \/ CredentialsChecked
    \/ handleReturnToUser

AuthSpec == PanelInit /\ [][AuthNext]_vars

-----------------------------------------------------------------------------
(* PatientForm inside the modal of AdminPanel.  The value of a field is     *)
(* written as what its validator says of it: "" (empty, invalid), "invalid" *)
(* or "valid".                                                              *)

FieldValues == {"", "invalid", "valid"}

\* validateField(name, value).isValid
validateField(name, value) == value = "valid"

\* the field names of the server's validation errors
ServerFields == {"Nome", "planoSaude", "email"}

\* field.toLowerCase()
toLowerCase(field) ==
    CASE field = "Nome" -> "nome"
      [] field = "planoSaude" -> "planosaude"
      [] OTHER -> field

fieldMapping ==
    [k \in {"name", "nome", "cpf", "age", "idade", "gender", "genero", "sexo",
            "plan", "plano", "planoSaude"} |->
        CASE k \in {"name", "nome"} -> "name"
          [] k = "cpf" -> "cpf"
          [] k \in {"age", "idade"} -> "age"
          [] k \in {"gender", "genero", "sexo"} -> "gender"
          [] OTHER -> "plan"]

\* fieldMapping[field.toLowerCase()] || field
mappedField(field) ==
    IF toLowerCase(field) \in DOMAIN fieldMapping
    THEN fieldMapping[toLowerCase(field)] ELSE field

hasErrors == formErrors # {}
hasServerErrors == serverErrors # {}
hasEmptyFields == \E f \in FormFields : formData[f] = ""
isFormValid == ~hasErrors /\ ~hasServerErrors /\ ~hasEmptyFields

\* updateFieldValidation(fieldName, validateField(fieldName, value))
updateFieldValidation(fieldName, value) ==
    /\ formErrors' = IF validateField(fieldName, value)
                     THEN formErrors \ {fieldName} ELSE formErrors \cup {fieldName}
    /\ serverErrors' = IF validateField(fieldName, value)
                       THEN serverErrors \ {fieldName} ELSE serverErrors

\* a change event of an input (the inputs are disabled while `loading`)
handleInputChange(name, value) ==
    /\ ~formProps.loading
    /\ ~(value = "" /\ formData[name] = "")
    /\ formData' = [formData EXCEPT ![name] = value]
    /\ live' = live \cup {name}
    /\ IF name \in live
       THEN updateFieldValidation(name, value)
       ELSE /\ formErrors' = formErrors \ {name}
            /\ UNCHANGED serverErrors
    /\ editedSince' = IF value = "valid" THEN editedSince \cup {name}
                      ELSE editedSince \ {name}
    /\ UNCHANGED formProps
    /\ UNCHANGED <<apiVars, fnVars, listVars, uiVars, authVars>>

\* a blur event of an input
handleBlur(name) ==
    /\ ~formProps.loading
    /\ live' = live \cup {name}
    /\ updateFieldValidation(name, formData[name])
    /\ UNCHANGED <<formData, formProps, editedSince>>
    /\ UNCHANGED <<apiVars, fnVars, listVars, uiVars, authVars>>

\* the submit button, disabled={loading || !isFormValid}: validateForm, then
\* onSubmit (handlePatientSubmit of AdminPanel sets formLoading)
handleSubmit ==
    /\ ~formProps.loading /\ isFormValid
    /\ live' = FormFields
    /\ formErrors' = {f \in FormFields : ~validateField(f, formData[f])}
    /\ formProps' = [formProps EXCEPT !.loading = (formErrors' = {})]
    /\ UNCHANGED <<formData, serverErrors, editedSince>>
    /\ UNCHANGED <<apiVars, fnVars, listVars, uiVars, authVars>>

\* handlePatientSubmit of AdminPanel resumes with validation errors of the
\* server: setFormValidationErrors(...), setFormLoading(false); the effect
\* of PatientForm maps the errors and marks their fields as touched
ValidationErrorsArrive(fields) ==
    /\ formProps.loading
    /\ formProps' = [loading |-> FALSE, serverValidationErrors |-> fields]
    /\ serverErrors' = {mappedField(f) : f \in fields}
    /\ live' = live \cup {mappedField(f) : f \in fields}
    /\ editedSince' = {}
    /\ UNCHANGED <<formData, formErrors>>
    /\ UNCHANGED <<apiVars, fnVars, listVars, uiVars, authVars>>

\* handlePatientSubmit resumes with a failure without validation errors:
\* setFormValidationErrors(undefined); the effect clears serverErrors
SubmitFails ==
    /\ formProps.loading
    /\ formProps' = [loading |-> FALSE, serverValidationErrors |-> NoValidationErrors]
    /\ serverErrors' = {}
    /\ UNCHANGED <<formData, formErrors, live, editedSince>>
    /\ UNCHANGED <<apiVars, fnVars, listVars, uiVars, authVars>>

\* the form is closed (handlePatientSubmit resumes with success, or the
\* cancel button is clicked while not loading) and opened again with
\* handleCreatePatient: a new PatientForm is constructed
FormReopens ==
    /\ (formProps.loading \/ formData # [f \in FormFields |-> ""] \/ live # {})
    /\ formData' = [f \in FormFields |-> ""]
    /\ formErrors' = {}
    /\ live' = {}
    /\ serverErrors' = {}
    /\ formProps' = [loading |-> FALSE, serverValidationErrors |-> NoValidationErrors]
    /\ editedSince' = {}
    /\ UNCHANGED <<apiVars, fnVars, listVars, uiVars, authVars>>

FormNext ==
    \/ \E f \in FormFields, v \in FieldValues : handleInputChange(f, v)
    \/ \E f \in FormFields : handleBlur(f)
    \/ handleSubmit
    \/ \E fields \in (SUBSET ServerFields) \ {{}} : ValidationErrorsArrive(fields)
    \/ SubmitFails
    \/ FormReopens

FormSpec == PanelInit /\ [][FormNext]_vars

-----------------------------------------------------------------------------
(* Properties *)

Done == pc = "done"
Env == result.env

\* C1: every API operation settles by resolving with a Result Envelope,
\* whatever the fetch did (any status, any rejection, a body that cannot be
\* read); the promise handed to the UI never rejects.
C1_NeverRejects ==
    /\ result.kind # "rejected"
    /\ Done => (result.kind = "resolved" /\ Env # NoEnvelope)
    /\ ~Done => result = NoResult

\* C1 witness: a patient operation whose last fetch rejected has resolved
C1_Witness ==
    /\ Done /\ op \in PatientOps /\ lastEvent \in {"error", "resend_error"}
    /\ result.kind = "resolved"

\* C2: in every envelope returned, success = true implies that error is
\* absent and success = false implies that data is absent.
C2_DataErrorExclusive ==
    result.kind = "resolved" =>
        /\ Env.success => Env.error = "absent"
        /\ ~Env.success => Env.data = "absent"

\* C2 witness: a failure envelope built from an HTTP response
C2_Witness ==
    /\ Done /\ lastEvent = "response" /\ ~Env.success /\ Env.status = 404
    /\ Env.error # "absent" /\ Env.data = "absent"

\* C3: in every envelope returned, success is true exactly when the
\* envelope's status is 200 or 201.
C3_SuccessIff200or201 ==
    result.kind = "resolved" => (Env.success <=> Env.status \in {200, 201})

\* C3 witness: a 204 answer has produced an envelope with success = false
C3_Witness ==
    Done /\ lastEvent = "response" /\ Env.status = 204 /\ ~Env.success

\* C4 as stated: no patient operation makes more than 3 HTTP attempts.
C4_OperationAtMostThree ==
    op \in PatientOps => attempts <= 3

\* C4 amended: getAllPatients and deletePatient make at most 3 HTTP
\* attempts, and every single fetchWithRetry call (one body variant of
\* createPatient or updatePatient) makes at most 3.
C4_RetrySequenceAtMostThree ==
    /\ op \in RetryOps => (attempts <= 3 /\ attempts = attempt)
    /\ op \in VariantOps => attempt <= 3

\* C4 witness: getAllPatients or deletePatient has returned after three attempts
C4_Witness ==
    Done /\ op \in RetryOps /\ attempts = 3

\* C5: an operation that returns the envelope of an HTTP 500 answer has made
\* 3 attempts, with sleeps of 1000 ms and 2000 ms between them.
C5_ThreeAttemptsOn500 ==
    (Done /\ op \in RetryOps /\ Env.status = 500) =>
        (attempts = 3 /\ delays = <<1000, 2000>> /\ ~Env.success)

\* C6: when an attempt fails with TypeError 'Failed to fetch' while the
\* device is online and fewer than 3 attempts have been made, fetchWithRetry
\* goes on to the backoff sleep (and from there to the next attempt).
C6_FailedToFetchRetried ==
    [][(/\ pc = "fetch" /\ op \in RetryOps /\ online /\ attempt < maxAttempts
        /\ lastEvent' = "error" /\ lastError' = ErrFailedToFetch)
       => pc' = "sleep"]_vars

\* C7: once an attempt of a patient operation has failed with a
\* CORS-classified error, the operation has returned its failure envelope
\* and no further attempt and no sleep has followed.
C7_CorsFailsFast ==
    (op \in PatientOps /\ corsAt # 0) =>
        (Done /\ attempts = corsAt /\ ~Env.success)

\* C8 as stated: the delay slept before attempt n (n >= 2) is
\* min(1000 * 2^(n-1), 10000) ms.
C8_DelayBeforeAttemptN ==
    (op \in PatientOps /\ pc = "fetch") =>
        \A n \in 2..attempt :
            /\ Len(delays) >= n - 1
            /\ delays[n - 1] = Min(1000 * Pow(2, n - 1), 10000)

\* C8 amended: the delay slept before attempt n (n >= 2) is
\* min(1000 * 2^(n-2), 10000) ms, the value of getRetryDelay(n - 1):
\* 1000 ms before the second attempt and 2000 ms before the third.
C8_DelayAfterAttemptN ==
    (op \in PatientOps /\ pc = "fetch") =>
        /\ Len(delays) = attempt - 1
        /\ \A n \in 2..attempt : delays[n - 1] = Min(1000 * Pow(2, n - 2), 10000)

\* C8 witness: the third attempt is in flight after two sleeps
C8_Witness ==
    pc = "fetch" /\ op \in PatientOps /\ attempt = 3 /\ Len(delays) = 2

\* C9: called while the device reports offline, getAllPatients returns
\* success = false with status 0 without any request (no HEAD probe, no
\* GET), and the failure is classified NETWORK.
C9_OfflineNoRequest ==
    (op = "getAllPatients" /\ ~callOnline) =>
        /\ Done /\ result.kind = "resolved"
        /\ ~Env.success /\ Env.status = 0
        /\ probes = 0 /\ attempts = 0
        /\ classified.type = "NETWORK"

\* C9 witness: getAllPatients was called offline and has returned
C9_Witness ==
    op = "getAllPatients" /\ ~callOnline /\ Done /\ ~Env.success

\* C10: when the HEAD probe is answered with a status >= 500 while the
\* device is online, getAllPatients / deletePatient fail at once without a
\* main attempt, and the failure is classified NETWORK.
C10_ProbeDownIsNetwork ==
    (op \in RetryOps /\ probeDown) =>
        (Done /\ ~Env.success /\ attempts = 0 /\ classified.type = "NETWORK")

\* C11: createPatient and updatePatient send their body variants in the
\* fixed order of dataVariations (a request is only ever sent for the current
\* variant or the one after it); once a variant is answered with a status
\* < 400 or >= 500 the operation has returned, no further variant is sent, and
\* the envelope is handleResponse of that answer.
C11_StopsAtFirstFinalAnswer ==
    /\ [](( /\ op \in VariantOps
            /\ lastEvent \in {"response", "resend_response"}
            /\ (response.status < 400 \/ response.status >= 500))
          => (Done /\ inFlight = 0 /\ result = Resolved(handleResponse(response))))
    /\ [][(op \in VariantOps /\ op' = op /\ attempts' = attempts + 1)
           => (i' \in {i, i + 1} /\ i' < NumVariations(op))]_vars

\* C11 witness: the second variant of updatePatient was answered 500 and the
\* operation has returned without sending the third
C11_Witness ==
    /\ Done /\ op = "updatePatient" /\ lastEvent = "response"
    /\ i = 1 /\ response.status = 500 /\ answered = {400, 500}

\* all body variants were sent and every one was answered 400
AllVariantsAnswered400 ==
    /\ Done /\ op \in VariantOps
    /\ answered = {400} /\ opLastError = NoError /\ probes = NumVariations(op)

C19_AttemptsSequential ==
    /\ [](inFlight <= 1)
    /\ []((pc \in {"sleep", "idle", "done"}) => inFlight = 0)
    /\ [][(/\ op \in PatientOps /\ op' = op /\ pc' = "fetch"
            /\ attempt >= 1 /\ attempt' = attempt + 1)
           => (pc = "sleep" /\ inFlight = 0 /\ lastEvent' = "timer"
               /\ Len(delays) = attempt)]_vars

\* C19 witness: the third attempt is the only request in flight, issued by
\* the timer of the second backoff sleep
C19_Witness ==
    /\ op \in PatientOps /\ pc = "fetch" /\ attempt = 3
    /\ lastEvent = "timer" /\ inFlight = 1

\* C24: in createPatient and updatePatient a 4xx answer other than 400 ends
\* the variant iteration as a status < 400 or >= 500 does: the operation has
\* returned the envelope of that answer and no further variant is sent.
C24_Other4xxEndsIteration ==
    (/\ op \in VariantOps /\ lastEvent \in {"response", "resend_response"}
     /\ response.status >= 400 /\ response.status < 500 /\ response.status # 400)
        => (Done /\ result = Resolved(handleResponse(response)))

\* C25: one call of createPatient causes at most one POST to be accepted by
\* the server, also when an attempt is aborted by its deadline after the
\* server has processed it.
C25_AtMostOneAccepted ==
    op = "createPatient" => accepted <= 1

\* C26: every patient operation returns an envelope, provided every
\* request settles, after a bounded number of requests: one fetchWithRetry
\* call makes at most 1 HEAD probe and 3 attempts, createPatient at most 4
\* probes and 13 POSTs, updatePatient at most 3 probes and 9 PUTs.
C26_TerminatesWithinBounds ==
    /\ [](op \in PatientOps => attempt <= 3)
    /\ [](op \in RetryOps => (probes <= 1 /\ attempts <= 3))
    /\ [](op \in VariantOps =>
            /\ probes <= i + 1
            /\ attempts <= 3 * probes + (IF op = "createPatient" THEN 1 ELSE 0))
    /\ [](op = "createPatient" => (probes <= 4 /\ attempts <= 13))
    /\ [](op = "updatePatient" => (probes <= 3 /\ attempts <= 9))
    /\ (op \in PatientOps) ~> (Done /\ result.kind = "resolved")

\* C26 witness: createPatient has returned after 4 probes and 13 POSTs
C26_Witness ==
    Done /\ op = "createPatient" /\ probes = 4 /\ attempts = 13

-----------------------------------------------------------------------------
(* Properties of handleResponse and handleApiError applied on their own *)

FnDone(f) == fnIn.fn = f /\ fnOut.done
Out == fnOut.value

PresentKeys(o) == {k \in Keys : o[k] # Undefined}
AlternateOnly(o) == PresentKeys(o) # {} /\ PresentKeys(o) \subseteq AlternateKeys
CanonicalOnly(o) == PresentKeys(o) \cap AlternateKeys = {}
NoUndefinedField(o) == \A k \in CanonicalKeys \ {"id"} : o[k] # Undefined

\* C13: a server object that contains only alternate-language keys, as the
\* single object or as an array element of a 200 / 201 body, is normalized
\* to a record in which no canonical field (name, cpf, age, gender, plan) is
\* undefined.
C13_AlternateOnlyNeverUndefined ==
    FnDone("handleResponse") =>
        LET v == fnIn.text.value IN
        /\ (fnIn.text.json /\ v.t = "object" /\ AlternateOnly(v.o))
              => (Out.data.t = "object" /\ NoUndefinedField(Out.data.o))
        /\ (fnIn.text.json /\ v.t = "array")
              => \A n \in DOMAIN v.a :
                    (v.a[n].t = "object" /\ AlternateOnly(v.a[n].o))
                        => NoUndefinedField(Out.data.a[n].o)

\* C14: an object without any alternate-language key (canonical keys and
\* other keys only), as the single object or as an array element, is passed
\* through unchanged.
C14_CanonicalPassedThrough ==
    FnDone("handleResponse") =>
        LET v == fnIn.text.value IN
        /\ (fnIn.text.json /\ v.t = "object" /\ CanonicalOnly(v.o)) => Out.data = v
        /\ (fnIn.text.json /\ v.t = "array")
              => \A n \in DOMAIN v.a :
                    (v.a[n].t = "object" /\ CanonicalOnly(v.a[n].o))
                        => Out.data.a[n] = v.a[n]

\* the messages of the entries of `errors` whose field is f, in body order
RECURSIVE MessagesOf(_, _)
MessagesOf(errors, f) ==
    IF errors = <<>> THEN <<>>
    ELSE IF Head(errors).field = f
    THEN <<Head(errors).message>> \o MessagesOf(Tail(errors), f)
    ELSE MessagesOf(Tail(errors), f)

GroupedByField(errors) ==
    [f \in {errors[n].field : n \in DOMAIN errors} |-> MessagesOf(errors, f)]

\* C15: an answer with a status >= 400 and the body
\* {"errors": [{field, message}, ...]} gives success = false and
\* details.validationErrors mapping each field to the list of its messages
\* in body order.
C15_ValidationErrorsGrouped ==
    FnDone("handleResponseErrors") =>
        /\ ~Out.success /\ Out.status = fnIn.status
        /\ Out.validationErrors.defined
        /\ Out.validationErrors.map = GroupedByField(fnIn.errors)

\* C16 as stated: a 201 answer whose body is not JSON gives success = true
\* and a placeholder patient with id set and every other field at its
\* default ('' for name, cpf, gender, plan and 0 for age).
C16_PlaceholderAllDefaults ==
    (FnDone("handleResponse") /\ fnIn.status = 201 /\ ~fnIn.text.json) =>
        /\ Out.success /\ Out.data.t = "object"
        /\ Out.data.o["id"] # Undefined
        /\ \A k \in {"name", "cpf", "gender", "plan"} : Out.data.o[k] = EmptyString
        /\ Out.data.o["age"] = Zero

\* C16 amended: a 201 answer whose body is not JSON gives success = true;
\* when the body is not empty, data is a placeholder patient with id set,
\* name 'Paciente criado com sucesso', cpf, gender and plan '' and age 0;
\* when the body is empty, data is {message: ''} without id or patient field.
C16_PlaceholderNamed ==
    (FnDone("handleResponse") /\ fnIn.status = 201 /\ ~fnIn.text.json) =>
        /\ Out.success /\ Out.status = 201 /\ Out.data.t = "object"
        /\ ~fnIn.text.empty =>
              /\ Out.data.o["id"] # Undefined
              /\ Out.data.o["name"] = "Paciente criado com sucesso"
              /\ \A k \in {"cpf", "gender", "plan"} : Out.data.o[k] = EmptyString
              /\ Out.data.o["age"] = Zero
        /\ fnIn.text.empty =>
              /\ PresentKeys(Out.data.o) = {"message"}
              /\ Out.data.o["message"] = EmptyString

\* C16 witness: handleResponse has answered a 201 with a non-empty text body
C16_Witness ==
    /\ FnDone("handleResponse") /\ fnIn.status = 201 /\ fnIn.text = PlainText
    /\ Out.data.o["id"] = "Date.now()"

\* C17: handleApiError called online with an AbortError answers category
\* TIMEOUT with retryable = true.
C17_AbortIsTimeout ==
    (FnDone("handleApiError") /\ fnIn.online /\ fnIn.error.name = "AbortError") =>
        (Out.type = "TIMEOUT" /\ Out.retryable)

\* the offline, CORS, network and timeout rules do not match
NoEarlierRule(error, on) ==
    /\ on
    /\ ~isCorsError(error)
    /\ ~isNetworkError(error, on)
    /\ ~(error.name = "AbortError" \/ IncludesTimeout(error.message))

\* the category the status table gives to an HTTP status
StatusCategory(status) ==
    CASE status \in {400, 409, 422} -> "VALIDATION"
      [] status = 401 -> "AUTHENTICATION"
      [] status = 403 -> "AUTHORIZATION"
      [] OTHER -> "API"

\* C18: an error that carries an HTTP status and matches none of the earlier
\* rules is classified by the status table (400, 409, 422 VALIDATION; 401
\* AUTHENTICATION; 403 AUTHORIZATION; 404, 429, 5xx and any other API), and
\* it is retryable exactly when the status is 429 or >= 500.
C18_StatusTable ==
    (/\ FnDone("handleApiError") /\ fnIn.error.status # 0
     /\ NoEarlierRule(fnIn.error, fnIn.online)) =>
        /\ Out.type = StatusCategory(fnIn.error.status)
        /\ Out.retryable <=> (fnIn.error.status = 429 \/ fnIn.error.status >= 500)

\* C18 witness: a status outside the switch cases (501) was classified API,
\* retryable
C18_Witness ==
    /\ FnDone("handleApiError") /\ fnIn.error.status = 501
    /\ NoEarlierRule(fnIn.error, fnIn.online)
    /\ Out.type = "API" /\ Out.retryable

\* the digits of a string of digit characters
DigitValue(c) == (CHOOSE k \in DOMAIN DigitChars : DigitChars[k] = c) - 1
RECURSIVE WeightedSum(_, _, _)
WeightedSum(str, n, weight) ==
    IF n = 0 THEN 0
    ELSE DigitValue(str[n]) * weight + WeightedSum(str, n - 1, weight + 1)
\* the check digit over the first n digits (weights n + 1 down to 2)
CheckDigit(str, n) ==
    LET r == (WeightedSum(str, n, 2) * 10) % 11 IN IF r = 10 THEN 0 ELSE r
CheckDigitsMatch(str) ==
    /\ DigitValue(str[10]) = CheckDigit(str, 9)
    /\ DigitValue(str[11]) = CheckDigit(str, 10)

\* C23: validateCPF answers isValid only for a string with exactly 11
\* digits, not all equal, whose two check digits are those of the mod-11
\* algorithm; a CPF with wrong check digits is rejected.
C23_ValidOnlyWithCheckDigits ==
    (FnDone("validateCPF") /\ Out.isValid) =>
        LET cleanCPF == StripNonDigits(fnIn.cpf) IN
        /\ Len(cleanCPF) = 11
        /\ ~AllDigitsEqual(cleanCPF)
        /\ CheckDigitsMatch(cleanCPF)

\* C21: the element of /admin renders the admin panel exactly when
\* authState.isAuthenticated and authState.isAdmin are both true; it sends
\* an unauthenticated visitor to /login and an authenticated visitor who is
\* not an admin to /.
C21_AdminOnlyForAdmins ==
    FnDone("AdminRoute") =>
        /\ (Out.render = "children")
              <=> (fnIn.auth.isAuthenticated /\ fnIn.auth.isAdmin)
        /\ ~fnIn.auth.isAuthenticated => Out = Navigate("/login")
        /\ (fnIn.auth.isAuthenticated /\ ~fnIn.auth.isAdmin) => Out = Navigate("/")

\* C21 witness: an authenticated visitor who is not an admin was sent to /
C21_Witness ==
    /\ FnDone("AdminRoute") /\ fnIn.auth.isAuthenticated /\ ~fnIn.auth.isAdmin
    /\ Out = Navigate("/")

-----------------------------------------------------------------------------
(* Properties of AuthProvider *)

\* C27: after logout, isAuthenticated and isAdmin stay false until a login
\* started after that logout succeeds; a login that was pending when logout
\* was called cannot authenticate the session again.
C27_LogoutHolds ==
    sinceLogout => (~authState.isAuthenticated /\ ~authState.isAdmin)

-----------------------------------------------------------------------------
(* Properties of PatientForm *)

\* C28: after the server answered with field-level validation errors,
\* whatever the field names, the user re-enables the submit button by
\* editing the five fields to valid values: once all five have been changed
\* to valid values since the errors arrived and `loading` is false, the
\* button is not disabled.
C28_SubmitReenabled ==
    (/\ formProps.serverValidationErrors # NoValidationErrors
     /\ ~formProps.loading
     /\ editedSince = FormFields
     /\ \A f \in FormFields : formData[f] = "valid") => isFormValid

-----------------------------------------------------------------------------
(* Properties of AdminPanel *)

\* C20: when fetchPatients calls were in flight concurrently and all have
\* completed, and the answer handled last was successful with data, the
\* panel shows the patients list of that answer, whatever the order in which
\* the calls were made.
C20_LastHandledSuccessShown ==
    (overlapped /\ listCalls = {} /\ lastHandled.kind = "data") =>
        Shown = [kind |-> "list", list |-> lastHandled.list]

\* C22: a patient is deleted only after confirmation.  Clicking a row's
\* delete button only opens the dialog, for that patient; cancelling closes
\* the dialog without a request; PatientApi.deletePatient is called only by
\* the confirm button of the open dialog, with the id of the patient whose
\* delete button was clicked.
C22_DeleteOnlyAfterConfirm ==
    /\ [](deleteArg.called => deleteArg.id = deleteArg.clicked)
    /\ [](deleteConfirm.show => deleteConfirm.patient = deleteArg.clicked)
    /\ [][deleteArg'.clicked # deleteArg.clicked
            => (deleteConfirm'.show /\ ~deleteArg'.called /\ deleteCall' = deleteCall)]_vars
    /\ [][(deleteCall' /\ ~deleteCall)
            => (deleteConfirm.show /\ ~formLoading /\ deleteArg'.called
                /\ deleteArg'.id = deleteConfirm.patient)]_vars
    /\ [][(deleteConfirm.show /\ ~deleteConfirm'.show /\ ~formLoading)
            => (~deleteCall' /\ ~deleteArg'.called)]_vars

\* C22 witness: the dialog was opened for the second row of the list and
\* confirmed; deletePatient is in flight with that patient's id
C22_Witness ==
    /\ deleteCall /\ deleteArg.called /\ deleteArg.id = "Bia"
    /\ Len(patients) = 2 /\ patients[2] = "Bia"

\* C29: `loading` is true whenever a fetchPatients call is in flight, under
\* every interleaving of the initial load, the refresh button and the
\* refreshes after a create, update or delete.
C29_LoadingWhileInFlight == listCalls # {} => loading

\* C30: a timer of showMessage clears only the message that armed it: when
\* a timer has set `message` to null, the message on display was its own.
C30_TimerClearsOwnMessage ==
    (cleared.by = "timer" /\ cleared.was # 0) => cleared.timer = cleared.was


====
